---- MODULE Spec2Model ----
(***************************************************************************)
(* Verification model of the golf-swing-analyzer repository. Each          *)
(* component has its own specification, in which the variables of the      *)
(* other components stay at their idle values:                             *)
(*   SpecFrames, SpecAnalysis, SpecLoop  the frame-sampling loop           *)
(*   SpecAngle, SpecPose                 calculate_angle_3d, the per-frame *)
(*                                       pose pipeline                     *)
(*   SpecThreshold                       the arm-angle threshold check     *)
(*   SpecUpload, SpecConfig, SpecDivide  save_uploaded_file, get_config,   *)
(*                                       safe_divide                       *)
(*   SpecDemo, SpecBot                   the Streamlit chat demos          *)
(*   SpecChat, SpecController            the Spring Boot chatbot           *)
(*   SpecPipeline                        pipeline_test.py                  *)
(***************************************************************************)
EXTENDS Integers, Sequences, FiniteSets, TLC

VARIABLES
    \* ---- _collect_frames ----
    total_frames,   \* cap.get(CAP_PROP_FRAME_COUNT): number of frames of the video
    skip_ratio,     \* max(1, total_frames // MAX_FRAMES)
    frame_count,    \* index of the frame the loop is looking at
    frames_data,    \* the kept frames, as the sequence of their indices
    fpc,            \* "idle" | "loop" | "done" | "raising" | "returned" | "raised"
    \* ---- the video handle of one analysis call ----
    cap_open,       \* cap.isOpened(): the handle is open (not yet released)
    \* ---- calculate_angle_3d ----
    p1, p2, p3,     \* the three points: None or a vector <<x, y, z>>
    rounding,       \* floating-point error of the normalized dot product
    angle,          \* the value returned (or the exception raised)
    apc,            \* "idle" | "call" | "done"
    \* ---- arm-angle threshold check ----
    arm_angle,      \* measured arm angle, whole degrees
    arm_ok,         \* outcome of the check
    tpc,            \* "idle" | "check" | "done"
    \* ---- ChatService.processMessage ----
    message,        \* the argument: NULL or a sequence of characters
    unicode_word,   \* TRUE: \b of the running JDK counts every Unicode letter as
                    \* a word character (JDK <= 18); FALSE: only [a-zA-Z0-9_]
    response,       \* the string returned (or the exception thrown)
    cpc,            \* "idle" | "call" | "done"
    \* ---- save_uploaded_file ----
    up_size,        \* uploaded_file.size, bytes (= len(uploaded_file.getvalue()))
    up_name,        \* uploaded_file.name, a sequence of characters
    up_fault,       \* what the file system does to this call's write
    remove_fails,   \* TRUE: os.remove(temp_path) raises
    temp_path,      \* the local temp_path: "None" | "set"
    disk,           \* size of the file at temp_path, ABSENT when there is none
    up_result,      \* the value returned: "pending" | "None" | "temp_path"
    upc,            \* "idle" | "size" | "name" | "open" | "write" | "verify" |
                    \* "except" | "returned"
    \* ---- Streamlit chat demo (demo_hello_world.py main) ----
    messages,       \* st.session_state.messages: records [role, content, seq],
                    \* seq numbering the messages in the order they were added
    n_added,        \* number of messages added so far
    shown,          \* the messages on the page after the latest script run
    shown_count,    \* the message count on the page
    preview,        \* the last-message preview on the page
    last_event,     \* the latest thing the user did: "load" | "submit" | "clear"
    dpc,            \* "idle" | "ready" (page rendered) | "rerun" (st.rerun() called)
    \* ---- Streamlit chatbot (hello_world_chatbot.py get_bot_response) ----
    user_input,     \* the argument, a sequence of characters
    bot_response,   \* the key of RESPONSES returned
    bpc,            \* "idle" | "call" | "done"
    \* ---- ChatController: POST /message ----
    req_message,    \* the request parameter "message", a sequence of characters
    enable_logging, \* chatConfig.isEnableLogging()
    max_message_length, \* chatConfig.getMaxMessageLength()
    thrown,         \* the exception thrown inside the method body, "none": none
    violations,     \* the constraint violations of the call (their messages)
    http_status,    \* status of the response, 0 while there is none
    http_body,      \* body of the response
    log,            \* the log lines written, as <<level, text, argument>>
    rpc,            \* "idle" | "request" | "violation" | "body" | "done"
    \* ---- config.get_config and its callers ----
    dicts,          \* the dict objects: sequence indexed by object id, each
                    \* [flat: a value, nested: id of a list object]
    lists,          \* the list objects: sequence indexed by object id
    held,           \* id of the dict the caller got from its latest call, 0: none
    section_arg,    \* argument of the latest call
    cfg_returned,   \* what the latest call returned or raised, by value
    n_changes,      \* number of changes the callers have made
    gpc,            \* "idle" | "run"
    \* ---- utils.safe_divide ----
    numerator,      \* the arguments: objects [t: type, v: value]
    denominator,
    default,
    quotient,       \* what the call returned or raised
    qpc,            \* "idle" | "call" | "done"
    \* ---- per-frame pose pipeline ----
    n_sampled,      \* number of sampled frames handed to the pipeline
    pose_frame,     \* number of the sampled frame being processed, from 1
    landmarks,      \* results.pose_landmarks of that frame: None or the three
                    \* landmarks of the joint triple
    coords,         \* what the getter returned for the three landmarks
    visited,        \* the frames pose detection was run on, in order
    angle_series,   \* the angles so far: records [frame, angle, unread]
    ppc,            \* "idle" | "detect" | "read" | "angle" | "done" | "raised"
    \* ---- the two documented versions of the sampling loop ----
    skip_branch,    \* the body of "if frame_count % skip_ratio != 0":
                    \* "increment_continue" | "continue"
    at,             \* where the loop is: "while" (its condition) | "if" (the
                    \* skip test, first statement of its body)
    \* ---- pipeline_test.py ----
    git_state,      \* the git of the machine: "ok" | "fails" | "hangs" | "missing"
    readme_at,      \* the possible_paths at which a README.md exists
    doc_valid,      \* the documentation found is complete
    components_ready, \* the pipeline components are ready
    test_results,   \* what the tests run so far returned
    test_log,       \* the log lines of the tests, as <<level, text>>
    report,         \* "" | "passed" | "failed"
    kpc             \* "idle" | "which" | "git" | "docs" | "components" |
                    \* "report" | "done"

framesVars == <<total_frames, skip_ratio, frame_count, frames_data, fpc>>
handleVars == <<cap_open>>
angleVars == <<p1, p2, p3, rounding, angle, apc>>
thresholdVars == <<arm_angle, arm_ok, tpc>>
chatVars == <<message, unicode_word, response, cpc>>
demoVars == <<messages, n_added, shown, shown_count, preview, last_event, dpc>>
botVars == <<user_input, bot_response, bpc>>
controllerVars == <<req_message, enable_logging, max_message_length, thrown,
                    violations, http_status, http_body, log, rpc>>
configVars == <<dicts, lists, held, section_arg, cfg_returned, n_changes, gpc>>
divideVars == <<numerator, denominator, default, quotient, qpc>>
uploadVars == <<up_size, up_name, up_fault, remove_fails, temp_path, disk,
                up_result, upc>>
poseVars == <<n_sampled, pose_frame, landmarks, coords, visited, angle_series,
              ppc>>
loopVars == <<skip_branch, at>>
pipelineVars == <<git_state, readme_at, doc_valid, components_ready,
                  test_results, test_log, report, kpc>>
vars == <<framesVars, handleVars, angleVars, thresholdVars, chatVars,
         uploadVars, demoVars, botVars, controllerVars, configVars,
         divideVars, poseVars, loopVars, pipelineVars>>

(***************************************************************************)
(* Frame sampler: SwingAnalyzer._collect_frames                            *)
(***************************************************************************)

\* config.py: MAX_FRAMES = 300
MAX_FRAMES == 300

\* Longest video explored (frames). Covers skip_ratio 1 and 2.
MaxVideoFrames == 605

Max(a, b) == IF a >= b THEN a ELSE b

\* skip_ratio = max(1, total_frames // MAX_FRAMES)
SkipRatio(n) == Max(1, n \div MAX_FRAMES)

\* while cap.isOpened() and len(frames_data) < MAX_FRAMES
\* (LoopGuardOffByOne: the condition written with <=)
LoopGuardOffByOne(kept) == Len(kept) <= MAX_FRAMES
LoopGuard(kept) == Len(kept) < MAX_FRAMES

\* if frame_count % skip_ratio != 0
\* (IsSkippedInverted: the test written with ==)
IsSkippedInverted(fc, sr) == fc % sr = 0
IsSkipped(fc, sr) == fc % sr # 0

FramesIdle ==
    /\ total_frames = 0
    /\ skip_ratio = 1
    /\ frame_count = 0
    /\ frames_data = <<>>
    /\ fpc = "idle"

\* State on entry of the loop: frames_data = [], frame_count = 0.
FramesStart ==
    /\ total_frames \in 0..MaxVideoFrames
    /\ skip_ratio = SkipRatio(total_frames)
    /\ frame_count = 0
    /\ frames_data = <<>>
    /\ fpc = "loop"

\* ret, frame = cap.read(); if not ret: break  -- the video is exhausted.
ReadEnd ==
    /\ fpc = "loop"
    /\ LoopGuard(frames_data)
    /\ frame_count >= total_frames
    /\ fpc' = "done"
    /\ UNCHANGED <<total_frames, skip_ratio, frame_count, frames_data>>

\* if frame_count % skip_ratio != 0: frame_count += 1; continue
SkipFrame ==
    /\ fpc = "loop"
    /\ LoopGuard(frames_data)
    /\ frame_count < total_frames
    /\ IsSkipped(frame_count, skip_ratio)
    /\ frame_count' = frame_count + 1
    /\ UNCHANGED <<total_frames, skip_ratio, frames_data, fpc>>

\* The frame passes the skip test and is kept: it is appended to frames_data
\* (the list the loop condition measures), then frame_count += 1.
KeepFrame ==
    /\ fpc = "loop"
    /\ LoopGuard(frames_data)
    /\ frame_count < total_frames
    /\ ~IsSkipped(frame_count, skip_ratio)
    /\ frames_data' = Append(frames_data, frame_count)
    /\ frame_count' = frame_count + 1
    /\ UNCHANGED <<total_frames, skip_ratio, fpc>>

\* The loop condition len(frames_data) < MAX_FRAMES fails: the cap is reached.
CapReached ==
    /\ fpc = "loop"
    /\ ~LoopGuard(frames_data)
    /\ fpc' = "done"
    /\ UNCHANGED <<total_frames, skip_ratio, frame_count, frames_data>>

(***************************************************************************)
(* One analysis call: the frame-collection loop inside try, the release of *)
(* the video handle in finally                                             *)
(*     cap = cv2.VideoCapture(path)                                        *)
(*     try:     <the loop of _collect_frames>                              *)
(*     finally: cap.release()                                              *)
(***************************************************************************)
HandleIdle == cap_open = FALSE

\* On entry of try: the handle is open, the loop is about to start.
AnalysisStart == FramesStart /\ cap_open = TRUE

\* ret, frame = cap.read(); if not ret: break  -- a frame inside the video
\* cannot be decoded.
ReadFails ==
    /\ fpc = "loop"
    /\ LoopGuard(frames_data)
    /\ frame_count < total_frames
    /\ fpc' = "done"
    /\ UNCHANGED <<total_frames, skip_ratio, frame_count, frames_data, cap_open>>

\* Processing the frame that passed the skip test raises an exception, which
\* leaves the loop and the try block.
ProcessingRaises ==
    /\ fpc = "loop"
    /\ LoopGuard(frames_data)
    /\ frame_count < total_frames
    /\ ~IsSkipped(frame_count, skip_ratio)
    /\ fpc' = "raising"
    /\ UNCHANGED <<total_frames, skip_ratio, frame_count, frames_data, cap_open>>

\* The exits of the try block on which cap.release() runs: written in finally
\* it runs on all of them.
\* (ReleasedOnNormalExit: cap.release() written after the loop, not in finally)
ReleasedOnNormalExit(pc) == pc = "done"
ReleasedOn(pc) == pc \in {"done", "raising"}

\* finally: cap.release(); then the call returns or the exception propagates.
Finally ==
    /\ fpc \in {"done", "raising"}
    /\ cap_open' = IF ReleasedOn(fpc) THEN FALSE ELSE cap_open
    /\ fpc' = IF fpc = "done" THEN "returned" ELSE "raised"
    /\ UNCHANGED <<total_frames, skip_ratio, frame_count, frames_data>>

(***************************************************************************)
(* Angle evaluator: utils.calculate_angle_3d                               *)
(* Lengths are integers in units of 5e-11, so that the 1e-10 threshold of  *)
(* the code is 2 units and vectors shorter than the threshold but not zero *)
(* exist. Cosines are in thousandths, angles in whole degrees.             *)
(***************************************************************************)

None == <<>>

\* Largest x, y and z coordinate of an input point.
MaxX == 4
MaxY == 2
MaxZ == 1

\* 1e-10, in length units of 5e-11.
NORM_EPS == 2

Vectors == {<<x, y, z>> : x \in 0..MaxX, y \in 0..MaxY, z \in 0..MaxZ}
Points == Vectors \cup {None}

Fallback == [kind |-> "value", deg |-> 0]
NaN == [kind |-> "nan", deg |-> 0]
TypeError == [kind |-> "exception", deg |-> 0]
Degrees(d) == [kind |-> "value", deg |-> d]

Sub(a, b) == <<a[1] - b[1], a[2] - b[2], a[3] - b[3]>>
Dot(a, b) == a[1] * b[1] + a[2] * b[2] + a[3] * b[3]
NormSq(a) == Dot(a, a)

\* floor(sqrt(n)) by bisection on lo..hi (lo*lo <= n < (hi+1)*(hi+1)).
RECURSIVE ISqrtIn(_, _, _)
ISqrtIn(n, lo, hi) ==
    IF lo >= hi THEN lo
    ELSE LET mid == (lo + hi + 1) \div 2
         IN IF mid * mid <= n THEN ISqrtIn(n, mid, hi) ELSE ISqrtIn(n, lo, mid - 1)
\* cos(k degrees) in thousandths, k = 0..90.
CosMilli == <<
    1000, 1000, 999, 999, 998, 996, 995, 993, 990, 988, 985, 982, 978, 974,
    970, 966, 961, 956, 951, 946, 940, 934, 927, 921, 914, 906, 899, 891,
    883, 875, 866, 857, 848, 839, 829, 819, 809, 799, 788, 777, 766, 755,
    743, 731, 719, 707, 695, 682, 669, 656, 643, 629, 616, 602, 588, 574,
    559, 545, 530, 515, 500, 485, 469, 454, 438, 423, 407, 391, 375, 358,
    342, 326, 309, 292, 276, 259, 242, 225, 208, 191, 174, 156, 139, 122,
    105, 87, 70, 52, 35, 17, 0 >>

\* 1.0 in thousandths.
COS_ONE == CosMilli[1]
ISqrt(n) == ISqrtIn(n, 0, COS_ONE)

\* np.degrees(np.arccos(c)): nan outside [-1, 1], else the angle (rounded up
\* to a whole degree; arccos(-c) = 180 - arccos(c)).
ArccosAcute(c) == CHOOSE k \in 0..90 :
    /\ CosMilli[k + 1] <= c
    /\ \A j \in 0..(k - 1) : CosMilli[j + 1] > c
ArccosDeg(c) ==
    IF c > COS_ONE \/ c < -COS_ONE THEN NaN
    ELSE IF c >= 0 THEN Degrees(ArccosAcute(c))
    ELSE Degrees(180 - ArccosAcute(-c))

\* np.clip(c, -1.0, 1.0)
Clip(c) == IF c > COS_ONE THEN COS_ONE ELSE IF c < -COS_ONE THEN -COS_ONE ELSE c

\* cos_angle = np.dot(v1, v2) / (norm1 * norm2) as the floating-point
\* division yields it: the exact quotient (truncated to thousandths) plus the
\* rounding error r; 0/0 is nan.
NormalizedDot(v1, v2, r) ==
    LET d == Dot(v1, v2)
        nn == NormSq(v1) * NormSq(v2)
        q == ISqrt((d * d * COS_ONE * COS_ONE) \div nn)
    IN (IF d < 0 THEN -q ELSE q) + r

\* "# Safe calculation continues...": the angle from the normalized dot product.
SafeAngle(v1, v2, r) ==
    IF NormSq(v1) * NormSq(v2) = 0 THEN NaN
    ELSE ArccosDeg(Clip(NormalizedDot(v1, v2, r)))

\* if p1 is None or p2 is None or p3 is None
\* (HasNoneMissingMiddle: the check without p2)
HasNoneMissingMiddle(a, b, c) == a = None \/ c = None
HasNone(a, b, c) == a = None \/ b = None \/ c = None

\* if norm1 < 1e-10 or norm2 < 1e-10
\* (IsDegenerateBoth: the check written with "and")
IsDegenerateBoth(v1, v2) ==
    NormSq(v1) < NORM_EPS * NORM_EPS /\ NormSq(v2) < NORM_EPS * NORM_EPS
IsDegenerate(v1, v2) ==
    NormSq(v1) < NORM_EPS * NORM_EPS \/ NormSq(v2) < NORM_EPS * NORM_EPS

calculate_angle_3d(a, b, c, r) ==
    IF HasNone(a, b, c) THEN Fallback
    ELSE IF a = None \/ b = None \/ c = None
         THEN TypeError   \* np.array(None) - np.array(p): unsupported operand
    ELSE LET v1 == Sub(a, b)
             v2 == Sub(c, b)
         IN IF IsDegenerate(v1, v2) THEN Fallback
            ELSE SafeAngle(v1, v2, r)

AngleIdle ==
    /\ p1 = None /\ p2 = None /\ p3 = None
    /\ rounding = 0
    /\ angle = Fallback
    /\ apc = "idle"

AngleStart ==
    /\ p1 \in Points /\ p2 \in Points /\ p3 \in Points
    /\ rounding = 0
    /\ angle = Fallback
    /\ apc = "call"

\* One call of calculate_angle_3d(p1, p2, p3).
CalculateAngle ==
    /\ apc = "call"
    /\ \E r \in {-1, 0, 1} :
        /\ rounding' = r
        /\ angle' = calculate_angle_3d(p1, p2, p3, r)
    /\ apc' = "done"
    /\ UNCHANGED <<p1, p2, p3>>

(***************************************************************************)
(* Threshold classifier: the arm-angle check of the swing evaluation       *)
(***************************************************************************)

\* THRESHOLDS['arm_angle_min']
ARM_ANGLE_MIN == 165

\* Largest angle explored, whole degrees.
MaxArmAngle == 180

\* if arm_angle >= THRESHOLDS['arm_angle_min']
\* (ArmAngleOkStrict: the comparison written with >)
ArmAngleOkStrict(a) == a > ARM_ANGLE_MIN
ArmAngleOk(a) == a >= ARM_ANGLE_MIN

ThresholdIdle ==
    /\ arm_angle = 0
    /\ arm_ok = FALSE
    /\ tpc = "idle"

ThresholdStart ==
    /\ arm_angle \in 0..MaxArmAngle
    /\ arm_ok = FALSE
    /\ tpc = "check"

CheckArmAngle ==
    /\ tpc = "check"
    /\ arm_ok' = ArmAngleOk(arm_angle)
    /\ tpc' = "done"
    /\ UNCHANGED arm_angle

(***************************************************************************)
(* Keyword matcher: ChatService.processMessage                             *)
(* A message is a sequence of characters; a character is a one-character   *)
(* string, a Hangul syllable is written by its code point ("U+C548").      *)
(***************************************************************************)

\* The null reference (no character is written "<null>").
NULL == <<"<null>">>

LowerLetters == <<"a", "b", "c", "d", "e", "f", "g", "h", "i", "j", "k", "l", "m",
                  "n", "o", "p", "q", "r", "s", "t", "u", "v", "w", "x", "y", "z">>
UpperLetters == <<"A", "B", "C", "D", "E", "F", "G", "H", "I", "J", "K", "L", "M",
                  "N", "O", "P", "Q", "R", "S", "T", "U", "V", "W", "X", "Y", "Z">>
HangulLetters == {"U+C548", "U+B155", "U+D558", "U+C138", "U+C694",
                  "U+C798", "U+AC00", "U+B3C4", "U+C6C0"}

Range(f) == {f[i] : i \in DOMAIN f}
LowerOf == [c \in Range(UpperLetters) |->
               LowerLetters[CHOOSE i \in DOMAIN UpperLetters : UpperLetters[i] = c]]

\* Character.toLowerCase (Hangul has no case).
ToLowerChar(c) == IF c \in DOMAIN LowerOf THEN LowerOf[c] ELSE c

\* String.toLowerCase()
ToLowerCase(str) == [i \in DOMAIN str |-> ToLowerChar(str[i])]

\* String.trim(): leading and trailing characters <= U+0020 removed.
IsSpace(c) == c = " "
Trim(str) ==
    LET first == CHOOSE i \in DOMAIN str :
                     ~IsSpace(str[i]) /\ \A j \in 1..(i - 1) : IsSpace(str[j])
        last == CHOOSE i \in DOMAIN str :
                    ~IsSpace(str[i]) /\ \A j \in (i + 1)..Len(str) : IsSpace(str[j])
    IN IF \A i \in DOMAIN str : IsSpace(str[i]) THEN <<>>
       ELSE SubSeq(str, first, last)

\* Pattern.compile("\\b(...)\\b", Pattern.CASE_INSENSITIVE): the alternatives.
GreetingKeywords == { <<"U+C548", "U+B155">>,              \* 안녕
                      <<"h", "e", "l", "l", "o">>,
                      <<"h", "i">>,
                      <<"h", "e", "y">> }
FarewellKeywords == { <<"U+C798", "U+AC00">>,              \* 잘가
                      <<"b", "y", "e">>,
                      <<"g", "o", "o", "d", "b", "y", "e">>,
                      <<"f", "a", "r", "e", "w", "e", "l", "l">> }
HelpKeywords == { <<"U+B3C4", "U+C6C0">>,                  \* 도움
                  <<"h", "e", "l", "p">>,
                  <<"?">> }

\* The word characters \b tells apart from the others.
IsAsciiWord(c) == c \in Range(LowerLetters) \/ c \in Range(UpperLetters)
IsWordChar(c, uni) == IsAsciiWord(c) \/ (uni /\ c \in HangulLetters)

\* \b at the gap after the first g characters of str.
Boundary(str, g, uni) ==
    LET left == g >= 1 /\ IsWordChar(str[g], uni)
        right == g < Len(str) /\ IsWordChar(str[g + 1], uni)
    IN left # right

\* CASE_INSENSITIVE comparison of one character (ASCII letters only).
SameChar(a, b) == ToLowerChar(a) = ToLowerChar(b)

\* The keyword kw matches at position i of str.
MatchAt(str, i, kw) ==
    /\ i + Len(kw) - 1 <= Len(str)
    /\ \A j \in 1..Len(kw) : SameChar(str[i + j - 1], kw[j])

\* pattern.matcher(str).find()
Find(keywords, str, uni) ==
    \E kw \in keywords : \E i \in 1..Len(str) :
        /\ MatchAt(str, i, kw)
        /\ Boundary(str, i - 1, uni)
        /\ Boundary(str, i + Len(kw) - 1, uni)

\* message == null || message.trim().isEmpty()
\* (IsBlankNoNullCheck: the test without message == null)
IsBlankNoNullCheck(msg) == msg # NULL /\ Trim(msg) = <<>>
IsBlank(msg) == msg = NULL \/ Trim(msg) = <<>>

\* The matcher with the farewell pattern tested before the greeting pattern.
processMessageFarewellFirst(msg, uni) ==
    IF IsBlank(msg) THEN "default"
    ELSE LET normalizedMessage == Trim(ToLowerCase(msg))
         IN IF Find(FarewellKeywords, normalizedMessage, uni) THEN "farewell"
            ELSE IF Find(GreetingKeywords, normalizedMessage, uni) THEN "greeting"
            ELSE IF Find(HelpKeywords, normalizedMessage, uni) THEN "help"
            ELSE "default"

\* The matcher with neither toLowerCase() nor CASE_INSENSITIVE.
processMessageCaseSensitive(msg, uni) ==
    IF IsBlank(msg) THEN "default"
    ELSE LET exact(keywords) ==
                 \E kw \in keywords : \E i \in 1..Len(Trim(msg)) :
                     /\ i + Len(kw) - 1 <= Len(Trim(msg))
                     /\ SubSeq(Trim(msg), i, i + Len(kw) - 1) = kw
                     /\ Boundary(Trim(msg), i - 1, uni)
                     /\ Boundary(Trim(msg), i + Len(kw) - 1, uni)
         IN IF exact(GreetingKeywords) THEN "greeting"
            ELSE IF exact(FarewellKeywords) THEN "farewell"
            ELSE IF exact(HelpKeywords) THEN "help"
            ELSE "default"

processMessage(msg, uni) ==
    IF IsBlank(msg) THEN "default"
    ELSE IF msg = NULL THEN "NullPointerException"   \* message.toLowerCase()
    ELSE LET normalizedMessage == Trim(ToLowerCase(msg))
         IN IF Find(GreetingKeywords, normalizedMessage, uni) THEN "greeting"
            ELSE IF Find(FarewellKeywords, normalizedMessage, uni) THEN "farewell"
            ELSE IF Find(HelpKeywords, normalizedMessage, uni) THEN "help"
            ELSE "default"

\* Inputs: the messages made of at most MaxTokens of these pieces, and null.
MaxTokens == 3
Tokens == { <<"h", "e", "l", "l", "o">>, <<"h", "i">>,
            <<"b", "y", "e">>, <<"B", "Y", "E">>,
            <<"g", "o", "o", "d", "b", "y", "e">>,
            <<"h", "e", "l", "p">>, <<"?">>,
            <<"w", "o", "r", "l", "d">>, <<" ">>,
            <<"U+C548", "U+B155">>,                        \* 안녕
            <<"U+D558", "U+C138", "U+C694">>,              \* 하세요
            <<"U+C798", "U+AC00">> }                       \* 잘가
RECURSIVE MessagesOf(_)
MessagesOf(n) ==
    IF n = 0 THEN {<<>>}
    ELSE LET shorter == MessagesOf(n - 1)
         IN shorter \cup {m \o t : m \in shorter, t \in Tokens}
Messages == MessagesOf(MaxTokens) \cup {NULL}

ChatIdle ==
    /\ message = <<>>
    /\ unicode_word = TRUE
    /\ response = ""
    /\ cpc = "idle"

ChatStart ==
    /\ message \in Messages
    /\ unicode_word \in BOOLEAN
    /\ response = ""
    /\ cpc = "call"

\* One call of chatService.processMessage(message).
ProcessMessage ==
    /\ cpc = "call"
    /\ response' = processMessage(message, unicode_word)
    /\ cpc' = "done"
    /\ UNCHANGED <<message, unicode_word>>

(***************************************************************************)
(* File upload: save_uploaded_file                                         *)
(*     temp_path = None                                                    *)
(*     try:                                                                *)
(*         <size check> <name check>                                       *)
(*         temp_path = os.path.join(TEMP_DIR, video_id)                    *)
(*         with open(temp_path, "wb") as f:                                *)
(*             f.write(uploaded_file.getvalue())                           *)
(*         <verification of the written file>                              *)
(*         return temp_path                                                *)
(*     except Exception: <remove temp_path if it exists>; return None      *)
(***************************************************************************)
\* uploaded_file.size > 100 * 1024 * 1024
MAX_UPLOAD_BYTES == 100 * 1024 * 1024

MaxSmallUpload == 2
MaxOverLimit == 1
UploadSizes ==
    (0..MaxSmallUpload)
        \cup ((MAX_UPLOAD_BYTES - MaxOverLimit)..(MAX_UPLOAD_BYTES + MaxOverLimit))

\* File names: the empty name (also standing for name = None, which "not
\* name" treats alike), a name of blanks, a proper name.
UploadNames == {<<>>, <<" ", " ">>, <<"a", ".", "m", "p", "4">>}

\* str.strip()
Strip(str) == Trim(str)

\* What happens to the write of this call:
\*   "none"         the file is written in full
\*   "open_raises"  open(temp_path, "wb") raises, no file is created
\*   "write_raises" the file is created and f.write raises (disk full, I/O
\*                  error), leaving the file empty or partly written
\*   "vanishes"     the file is written and is gone before the verification
UploadFaults == {"none", "open_raises", "write_raises", "vanishes"}

ABSENT == -1

UploadIdle ==
    /\ up_size = 0
    /\ up_name = <<>>
    /\ up_fault = "none"
    /\ remove_fails = FALSE
    /\ temp_path = "None"
    /\ disk = ABSENT
    /\ up_result = "pending"
    /\ upc = "idle"

\* temp_path = None; try:
UploadStart ==
    /\ up_size \in UploadSizes
    /\ up_name \in UploadNames
    /\ up_fault \in UploadFaults
    /\ remove_fails \in BOOLEAN
    /\ temp_path = "None"
    /\ disk = ABSENT
    /\ up_result = "pending"
    /\ upc = "size"

uploadInputs == <<up_size, up_name, up_fault, remove_fails>>

\* if uploaded_file.size > 100 * 1024 * 1024: st.error(...); return None
TooLarge(size) == size > MAX_UPLOAD_BYTES
CheckSize ==
    /\ upc = "size"
    /\ IF TooLarge(up_size)
       THEN upc' = "returned" /\ up_result' = "None"
       ELSE upc' = "name" /\ UNCHANGED up_result
    /\ UNCHANGED <<uploadInputs, temp_path, disk>>

\* if not uploaded_file.name or len(uploaded_file.name.strip()) == 0:
\*     st.error(...); return None
BadName(name) == name = <<>> \/ Len(Strip(name)) = 0
CheckName ==
    /\ upc = "name"
    /\ IF BadName(up_name)
       THEN upc' = "returned" /\ up_result' = "None"
       ELSE upc' = "open" /\ UNCHANGED up_result
    /\ UNCHANGED <<uploadInputs, temp_path, disk>>

\* temp_path = os.path.join(TEMP_DIR, video_id); open(temp_path, "wb")
\* creates the file empty, or raises.
OpenFile ==
    /\ upc = "open"
    /\ temp_path' = "set"
    /\ IF up_fault = "open_raises"
       THEN upc' = "except" /\ UNCHANGED disk
       ELSE upc' = "write" /\ disk' = 0
    /\ UNCHANGED <<uploadInputs, up_result>>

\* f.write(uploaded_file.getvalue()): all bytes reach the file, or the write
\* raises with none or all but one of them written.
PartialSizes(size) == {0} \cup {k \in {size - 1} : k > 0}
WriteFile ==
    /\ upc = "write"
    /\ \/ /\ up_fault = "write_raises"
          /\ disk' \in PartialSizes(up_size)
          /\ upc' = "except"
       \/ /\ up_fault = "vanishes"
          /\ disk' = ABSENT
          /\ upc' = "verify"
       \/ /\ up_fault \notin {"write_raises", "vanishes"}
          /\ disk' = up_size
          /\ upc' = "verify"
    /\ UNCHANGED <<uploadInputs, temp_path, up_result>>

\* if not os.path.exists(temp_path) or os.path.getsize(temp_path) == 0:
\*     st.error(...); return None
\* return temp_path
VerifyFails(d) == d = ABSENT \/ d = 0
VerifyFile ==
    /\ upc = "verify"
    /\ up_result' = IF VerifyFails(disk) THEN "None" ELSE "temp_path"
    /\ upc' = "returned"
    /\ UNCHANGED <<uploadInputs, temp_path, disk>>

\* except Exception as e:
\*     if temp_path and os.path.exists(temp_path):
\*         try: os.remove(temp_path)
\*         except: pass
\*     return None
ExceptCleanup ==
    /\ upc = "except"
    /\ disk' = IF temp_path # "None" /\ disk # ABSENT /\ ~remove_fails
               THEN ABSENT ELSE disk
    /\ up_result' = "None"
    /\ upc' = "returned"
    /\ UNCHANGED <<uploadInputs, temp_path>>

(***************************************************************************)
(* Streamlit chat demo: main() of demo_hello_world.py. Every interaction   *)
(* runs the script from the top:                                           *)
(*     if 'messages' not in st.session_state: ...messages = []             *)
(*     for message in st.session_state.messages: <show it>                 *)
(*     if prompt := st.chat_input(...):                                    *)
(*         ...messages.append({"role": "user", "content": prompt})         *)
(*         <choose response>                                               *)
(*         ...messages.append({"role": "assistant", "content": response})  *)
(*     if st.button("Clear Chat"): ...messages = []; st.rerun()            *)
(*     <message count> <last-message preview>                              *)
(***************************************************************************)
MaxSubmits == 3

\* What the user can type into st.chat_input (never the empty string).
DemoPrompts == {"hello", "bye", "thanks"}

NO_MESSAGES_YET == "No messages yet"

\* if <hello>: response = ...  elif <bye>: response = ...
\* else: response = "I heard you! Thanks for your message."
DemoResponse(prompt) ==
    CASE prompt = "hello" -> "<response to hello>"
      [] prompt = "bye" -> "<response to bye>"
      [] OTHER -> "I heard you! Thanks for your message."

\* st.session_state.messages.append({"role": "user", "content": prompt})
\* (AddUserFirst: written with insert(0, ...))
AddUserFirst(msgs, prompt, n) ==
    <<[role |-> "user", content |-> prompt, seq |-> n]>> \o msgs
AddUser(msgs, prompt, n) ==
    Append(msgs, [role |-> "user", content |-> prompt, seq |-> n])

\* # Always add response
\* st.session_state.messages.append({"role": "assistant", "content": response})
\* (AddResponseIfKeyword: response = None for the other inputs, and
\* "if response:" around the append)
AddResponseIfKeyword(msgs, prompt, n) ==
    IF prompt \in {"hello", "bye"}
    THEN Append(msgs, [role |-> "assistant", content |-> DemoResponse(prompt),
                       seq |-> n])
    ELSE msgs
AddResponse(msgs, prompt, n) ==
    Append(msgs, [role |-> "assistant", content |-> DemoResponse(prompt),
                  seq |-> n])

\* if st.session_state.messages:
\*     last_message = st.session_state.messages[-1]["content"]
\* else: st.write("No messages yet")
\* (LastMessageFirstIndex: written with messages[0])
LastMessageFirstIndex(msgs) ==
    IF msgs # <<>> THEN msgs[1].content ELSE NO_MESSAGES_YET
LastMessage(msgs) ==
    IF msgs # <<>> THEN msgs[Len(msgs)].content ELSE NO_MESSAGES_YET

\* st.rerun() after the clear: the script run is abandoned and a new one
\* starts at once.
\* (AfterClearNoRerun: the run goes on to its end with the page as drawn)
AfterClearNoRerun == "ready"
AfterClear == "rerun"

DemoIdle ==
    /\ messages = <<>>
    /\ n_added = 0
    /\ shown = <<>>
    /\ shown_count = 0
    /\ preview = NO_MESSAGES_YET
    /\ last_event = "load"
    /\ dpc = "idle"

\* The first script run of the session: messages = [], nothing to show.
DemoStart ==
    /\ messages = <<>>
    /\ n_added = 0
    /\ shown = <<>>
    /\ shown_count = Len(messages)
    /\ preview = LastMessage(messages)
    /\ last_event = "load"
    /\ dpc = "ready"

\* A script run started by a submitted prompt: the history is shown, the user
\* message and the response are appended and shown, then count and preview.
Submit ==
    /\ dpc = "ready"
    /\ n_added < 2 * MaxSubmits
    /\ \E prompt \in DemoPrompts :
          LET with_user == AddUser(messages, prompt, n_added + 1)
              with_both == AddResponse(with_user, prompt, n_added + 2)
          IN /\ messages' = with_both
             /\ n_added' = n_added + (Len(with_both) - Len(messages))
             /\ shown' = with_both
             /\ shown_count' = Len(with_both)
             /\ preview' = LastMessage(with_both)
    /\ last_event' = "submit"
    /\ dpc' = "ready"

\* A script run started by a click on Clear Chat: the history is shown, then
\* messages = [] and st.rerun().
ClickClear ==
    /\ dpc = "ready"
    /\ shown' = messages
    /\ messages' = <<>>
    /\ dpc' = AfterClear
    /\ shown_count' = IF AfterClear = "rerun" THEN shown_count ELSE 0
    /\ preview' = IF AfterClear = "rerun" THEN preview ELSE LastMessage(<<>>)
    /\ last_event' = "clear"
    /\ UNCHANGED n_added

\* The script run started by st.rerun(): no widget has input.
Rerun ==
    /\ dpc = "rerun"
    /\ shown' = messages
    /\ shown_count' = Len(messages)
    /\ preview' = LastMessage(messages)
    /\ dpc' = "ready"
    /\ UNCHANGED <<messages, n_added, last_event>>

\* A script run started by anything else (reload of the page, another
\* widget): no prompt, no click.
Refresh ==
    /\ dpc = "ready"
    /\ shown' = messages
    /\ shown_count' = Len(messages)
    /\ preview' = LastMessage(messages)
    /\ dpc' = "ready"
    /\ UNCHANGED <<messages, n_added, last_event>>

(***************************************************************************)
(* Streamlit chatbot: get_bot_response of hello_world_chatbot.py           *)
(***************************************************************************)
\* config.GREETING_KEYWORDS, config.FAREWELL_KEYWORDS, as the README of the
\* chatbot lists them.
GREETING_KEYWORDS == { <<"h", "e", "l", "l", "o">>,
                       <<"h", "i">>,
                       <<"h", "e", "y">>,
                       <<"U+C548", "U+B155">>,                               \* 안녕
                       <<"U+C548", "U+B155", "U+D558", "U+C138", "U+C694">> } \* 안녕하세요
FAREWELL_KEYWORDS == { <<"b", "y", "e">>,
                       <<"g", "o", "o", "d", "b", "y", "e">>,
                       <<"s", "e", "e", " ", "y", "o", "u">>,
                       <<"U+C548", "U+B155", "U+D788">>,                     \* 안녕히
                       <<"U+C798", "U+AC00">> }                              \* 잘가

\* keyword in user_input_lower
InString(kw, str) ==
    \E i \in 1..Len(str) :
        i + Len(kw) - 1 <= Len(str) /\ SubSeq(str, i, i + Len(kw) - 1) = kw

\* str.lower()
Lower(str) == ToLowerCase(str)

\* if any(greeting in user_input_lower for greeting in GREETING_KEYWORDS):
\*     return RESPONSES["greeting"]
\* and then the same for the farewells, and the default response.
get_bot_response(input) ==
    LET user_input_lower == Lower(input)
    IN IF \E greeting \in GREETING_KEYWORDS : InString(greeting, user_input_lower)
       THEN "greeting"
       ELSE IF \E farewell \in FAREWELL_KEYWORDS :
                   InString(farewell, user_input_lower)
       THEN "farewell"
       ELSE "default"

\* Inputs: at most MaxBotTokens of these pieces.
MaxBotTokens == 2
BotTokens == { <<"h", "e", "l", "l", "o">>, <<"H", "i">>,
               <<"b", "y", "e">>, <<"G", "o", "o", "d", "b", "y", "e">>,
               <<"s", "e", "e", " ", "y", "o", "u">>,
               <<"t", "o", "m", "o", "r", "r", "o", "w">>, <<" ">>,
               <<"U+C548", "U+B155">>,                     \* 안녕
               <<"U+D558", "U+C138", "U+C694">>,           \* 하세요
               <<"U+D788">>,                               \* 히
               <<"U+C798", "U+AC00">> }                    \* 잘가
RECURSIVE BotInputsOf(_)
BotInputsOf(n) ==
    IF n = 0 THEN {<<>>}
    ELSE LET shorter == BotInputsOf(n - 1)
         IN shorter \cup {m \o t : m \in shorter, t \in BotTokens}
BotInputs == BotInputsOf(MaxBotTokens)

BotIdle ==
    /\ user_input = <<>>
    /\ bot_response = ""
    /\ bpc = "idle"

BotStart ==
    /\ user_input \in BotInputs
    /\ bot_response = ""
    /\ bpc = "call"

\* One call of get_bot_response(user_input).
GetBotResponse ==
    /\ bpc = "call"
    /\ bot_response' = get_bot_response(user_input)
    /\ bpc' = "done"
    /\ UNCHANGED user_input

(***************************************************************************)
(* Web controller: ChatController.processMessage (POST /message), the      *)
(* method validation the @Validated class puts in front of it, and         *)
(* GlobalExceptionHandler. The service it calls is ChatService above; its  *)
(* argument and result are the variables message and response.             *)
(***************************************************************************)
\* @Size(max = 500, ...)
SIZE_MAX == 500

\* The messages of the two constraints (their English halves).
NOT_BLANK_MESSAGE == "Please enter a message."
SIZE_MESSAGE == "Message too long."
ERROR_BODY == "An error occurred."

\* ChatConfig: private int maxMessageLength = 500
MAX_MESSAGE_LENGTH == 500

\* The values chatbot.max-message-length is set to (setMaxMessageLength): a
\* small one, the default, and one above the default.
SmallMaxLength == 3
ConfiguredLengths == {SmallMaxLength, MAX_MESSAGE_LENGTH, MAX_MESSAGE_LENGTH + 1}

\* What a call made in the method body does: it returns, or it throws an
\* exception of one of the classes the catch clauses tell apart.
CONSTRAINT_VIOLATION == "ConstraintViolationException"
BodyFaults == {"none", CONSTRAINT_VIOLATION, "RuntimeException"}

\* e.getMessage()
ExceptionMessage(e) == "e.getMessage()"

\* @NotBlank: the trimmed value has length 0.
\* (NotBlankViolatedAsNotEmpty: the constraint written @NotEmpty)
NotBlankViolatedAsNotEmpty(str) == Len(str) = 0
NotBlankViolated(str) == Len(Trim(str)) = 0

\* @Size(max = 500): the value is longer than max.
SizeViolated(str) == Len(str) > SIZE_MAX

\* The violations method validation finds on the parameter.
Violations(str) ==
    (IF NotBlankViolated(str) THEN {NOT_BLANK_MESSAGE} ELSE {})
        \cup (IF SizeViolated(str) THEN {SIZE_MESSAGE} ELSE {})

\* HtmlUtils.htmlEscape
EscapeChar(c) ==
    CASE c = "<" -> <<"&", "l", "t", ";">>
      [] c = ">" -> <<"&", "g", "t", ";">>
      [] c = "&" -> <<"&", "a", "m", "p", ";">>
      [] c = "\"" -> <<"&", "q", "u", "o", "t", ";">>
      [] c = "'" -> <<"&", "#", "3", "9", ";">>
      [] OTHER -> <<c>>
RECURSIVE htmlEscape(_)
htmlEscape(str) ==
    IF Len(str) = 0 THEN <<>>
    ELSE IF Len(str) = 1 THEN EscapeChar(str[1])
    ELSE LET half == Len(str) \div 2
         IN htmlEscape(SubSeq(str, 1, half))
                \o htmlEscape(SubSeq(str, half + 1, Len(str)))

\* Request parameters: a short text followed by a run of one character, the
\* run short or bringing the length near SIZE_MAX.
MaxShortRun == 2
NearSizeMax == 7
RequestTexts == { <<>>, <<" ">>, <<"h", "i">>, <<"b", "y", "e", " ">>,
                  <<"<", "h", "i", ">">>, <<"g", "o", "o", "d", "b", "y", "e">>,
                  <<"U+C548", "U+B155">> }
RunChars == {" ", "x"}
RunLengths == (0..MaxShortRun) \cup ((SIZE_MAX - NearSizeMax)..(SIZE_MAX + 1))
Run(c, n) == [i \in 1..n |-> c]
RequestMessages ==
    {t \o Run(c, n) : t \in RequestTexts, c \in RunChars, n \in RunLengths}

ControllerIdle ==
    /\ req_message = <<>>
    /\ enable_logging = TRUE
    /\ max_message_length = MAX_MESSAGE_LENGTH
    /\ thrown = "none"
    /\ violations = {}
    /\ http_status = 0
    /\ http_body = ""
    /\ log = <<>>
    /\ rpc = "idle"

\* A POST /message request has arrived; the service has not been called.
ControllerStart ==
    /\ req_message \in RequestMessages
    /\ enable_logging \in BOOLEAN
    /\ max_message_length \in ConfiguredLengths
    /\ thrown = "none"
    /\ violations = {}
    /\ http_status = 0
    /\ http_body = ""
    /\ log = <<>>
    /\ rpc = "request"
    /\ message = <<>>
    /\ unicode_word \in BOOLEAN
    /\ response = ""
    /\ cpc = "idle"

\* Method validation, before the method body: with a violation it throws
\* ConstraintViolationException and the body does not run.
ValidateParameter ==
    /\ rpc = "request"
    /\ violations' = Violations(req_message)
    /\ rpc' = IF Violations(req_message) # {} THEN "violation" ELSE "body"
    /\ UNCHANGED <<req_message, enable_logging, max_message_length, thrown,
                   http_status, http_body, log>>
    /\ UNCHANGED chatVars

\* GlobalExceptionHandler.handleValidationException:
\*     e.getConstraintViolations().iterator().next().getMessage()  -> 400
HandleValidationException ==
    /\ rpc = "violation"
    /\ \E v \in violations : http_body' = v
    /\ http_status' = 400
    /\ rpc' = "done"
    /\ UNCHANGED <<req_message, enable_logging, max_message_length, thrown,
                   violations, log>>
    /\ UNCHANGED chatVars

\* The method body: escape, log, call the service, answer 200.
\*     catch (ConstraintViolationException e): 400 with e.getMessage()
\*     catch (Exception e): logged with the raw message, 500 with the fixed body
MethodBody ==
    /\ rpc = "body"
    /\ \E fault \in BodyFaults :
        LET sanitizedMessage == htmlEscape(Trim(req_message))
            info == IF enable_logging
                    THEN <<(<<"INFO", "Processing message: {}", sanitizedMessage>>)>>
                    ELSE <<>>
            result == IF fault = "none"
                      THEN processMessage(sanitizedMessage, unicode_word)
                      ELSE fault
        IN /\ message' = sanitizedMessage
           /\ response' = result
           /\ cpc' = "done"
           /\ IF result = CONSTRAINT_VIOLATION
              THEN /\ thrown' = result
                   /\ http_status' = 400
                   /\ http_body' = ExceptionMessage(result)
                   /\ log' = log \o info
              ELSE IF result \in {"NullPointerException", "RuntimeException"}
              THEN /\ thrown' = result
                   /\ http_status' = 500
                   /\ http_body' = ERROR_BODY
                   /\ log' = log \o info \o
                         <<(<<"ERROR", "Error processing message: {}", req_message>>)>>
              ELSE /\ thrown' = "none"
                   /\ http_status' = 200
                   /\ http_body' = result
                   /\ log' = log \o info
    /\ rpc' = "done"
    /\ UNCHANGED <<req_message, enable_logging, max_message_length, violations,
                   unicode_word>>

(***************************************************************************)
(* Configuration: config.get_config. The sections are dicts of the module; *)
(* a dict maps its keys to objects, and a list or dict among them is an    *)
(* object of its own that the dict refers to. Each section is modelled     *)
(* with one key holding a plain value and one key holding a list.          *)
(***************************************************************************)
VIDEO == <<"v", "i", "d", "e", "o">>
LOGGING == <<"l", "o", "g", "g", "i", "n", "g">>

\* A value that is not a str.
NOT_A_STR == <<"<int>">>

\* configs = {...}: the dict object of each section.
configs == (VIDEO :> 1) @@ (LOGGING :> 2)

\* The module's dicts and lists as written in config.py.
ORIGINAL_DICTS == << [flat |-> "300", nested |-> 1],
                     [flat |-> "INFO", nested |-> 2] >>
ORIGINAL_LISTS == << <<".mp4", ".avi", ".mov">>, <<"console">> >>

\* The value of a dict, with the list it refers to read out.
ValueOf(d, ds, ls) == [flat |-> ds[d].flat, nested |-> ls[ds[d].nested]]

\* dict.copy(): a new dict with the same keys referring to the same objects.
ShallowCopy(d, ds, ls) ==
    [dicts |-> Append(ds, ds[d]), lists |-> ls]

\* if not section or not isinstance(section, str): raise ValueError(...)
\* section = section.lower().strip()
\* <section not among the available sections: raise>
\* return configs[section].copy()
\* (get_config_as_given: the lookup without section.lower().strip())
get_config_as_given(section) ==
    IF section = <<>> \/ section = NOT_A_STR THEN [status |-> "ValueError", dict |-> 0]
    ELSE IF section \notin DOMAIN configs
         THEN [status |-> "KeyError", dict |-> 0]
         ELSE [status |-> "ok", dict |-> configs[section]]
get_config(section) ==
    IF section = <<>> \/ section = NOT_A_STR THEN [status |-> "ValueError", dict |-> 0]
    ELSE LET normalized == Strip(Lower(section))
         IN IF normalized \notin DOMAIN configs
            THEN [status |-> "KeyError", dict |-> 0]
            ELSE [status |-> "ok", dict |-> configs[normalized]]

MaxChanges == 2
MaxCalls == 3
SectionArgs == { <<>>, NOT_A_STR, VIDEO, LOGGING,
                 <<" ", "V", "i", "d", "e", "o", " ">>,
                 <<"n", "o", "s", "u", "c", "h">> }
NewValues == {"changed"}

NoResult == [status |-> "none", flat |-> "", nested |-> <<>>]
Raised(e) == [status |-> e, flat |-> "", nested |-> <<>>]
Returned(v) == [status |-> "ok", flat |-> v.flat, nested |-> v.nested]

ConfigIdle ==
    /\ dicts = ORIGINAL_DICTS
    /\ lists = ORIGINAL_LISTS
    /\ held = 0
    /\ section_arg = <<>>
    /\ cfg_returned = NoResult
    /\ n_changes = 0
    /\ gpc = "idle"

\* The module is imported: no call yet.
ConfigStart ==
    /\ dicts = ORIGINAL_DICTS
    /\ lists = ORIGINAL_LISTS
    /\ held = 0
    /\ section_arg = <<>>
    /\ cfg_returned = NoResult
    /\ n_changes = 0
    /\ gpc = "run"

\* One call of get_config(section): the caller keeps what it returns.
GetConfig ==
    /\ gpc = "run"
    /\ Len(dicts) < Len(ORIGINAL_DICTS) + MaxCalls
    /\ \E section \in SectionArgs :
          LET found == get_config(section)
              copied == ShallowCopy(found.dict, dicts, lists)
          IN /\ section_arg' = section
             /\ IF found.status = "ok"
                THEN /\ dicts' = copied.dicts
                     /\ lists' = copied.lists
                     /\ held' = Len(copied.dicts)
                     /\ cfg_returned' =
                            Returned(ValueOf(Len(copied.dicts), copied.dicts,
                                             copied.lists))
                ELSE /\ cfg_returned' = Raised(found.status)
                     /\ UNCHANGED <<dicts, lists, held>>
    /\ UNCHANGED <<n_changes, gpc>>

\* The caller assigns to a key of the dict it got: config[key] = value.
ChangeTopLevel ==
    /\ gpc = "run"
    /\ held # 0
    /\ n_changes < MaxChanges
    /\ \E v \in NewValues : dicts' = [dicts EXCEPT ![held].flat = v]
    /\ n_changes' = n_changes + 1
    /\ UNCHANGED <<lists, held, section_arg, cfg_returned, gpc>>

\* The caller replaces the list under a key: config[key] = [value].
ReplaceNested ==
    /\ gpc = "run"
    /\ held # 0
    /\ n_changes < MaxChanges
    /\ \E v \in NewValues :
          /\ lists' = Append(lists, <<v>>)
          /\ dicts' = [dicts EXCEPT ![held].nested = Len(lists) + 1]
    /\ n_changes' = n_changes + 1
    /\ UNCHANGED <<held, section_arg, cfg_returned, gpc>>

\* The caller changes the list under a key in place: config[key].append(value).
ChangeNested ==
    /\ gpc = "run"
    /\ held # 0
    /\ n_changes < MaxChanges
    /\ \E v \in NewValues :
          lists' = [lists EXCEPT ![dicts[held].nested] = Append(@, v)]
    /\ n_changes' = n_changes + 1
    /\ UNCHANGED <<dicts, held, section_arg, cfg_returned, gpc>>

(***************************************************************************)
(* Safe division: utils.safe_divide                                        *)
(* An argument is an object [t, v]: None, a str, a float (v its value in   *)
(* units of 5e-11, so that the 1e-10 of the code is 2 units), or an int    *)
(* too large for a float (10 ** 400).                                      *)
(***************************************************************************)
\* abs(denominator) < 1e-10
DIVIDE_EPS == 2

MaxOperand == 4
NoneObject == [t |-> "None", v |-> 0]
StrObject == [t |-> "str", v |-> 0]
HugeInt == [t |-> "int", v |-> 0]
Float(x) == [t |-> "float", v |-> x]
Floats == {Float(x) : x \in (0 - MaxOperand)..MaxOperand}
Operands == {NoneObject, StrObject, HugeInt} \cup Floats
Defaults == {Float(0), Float(0 - 1)}

\* Outcomes of the call.
ReturnDefault(d) == [kind |-> "default", num |-> d.v, den |-> 1, exc |-> ""]
ReturnQuotient(n, d) == [kind |-> "quotient", num |-> n, den |-> d, exc |-> ""]
Raise(e) == [kind |-> "raised", num |-> 0, den |-> 1, exc |-> e]
NoQuotient == [kind |-> "none", num |-> 0, den |-> 1, exc |-> ""]

\* abs(x): TypeError for a str.
AbsRaises(x) == x.t = "str"
Abs(x) == IF x.v < 0 THEN 0 - x.v ELSE x.v

\* numerator / denominator, abs(denominator) >= 1e-10 known: TypeError for a
\* str operand, OverflowError when an int too large for a float meets a
\* float, the quotient otherwise.
TrueDivide(n, d) ==
    IF n.t = "str" \/ d.t = "str" THEN Raise("TypeError")
    ELSE IF n.t = "int" /\ d.t = "int" THEN ReturnQuotient(1, 1)
    ELSE IF n.t = "int" \/ d.t = "int" THEN Raise("OverflowError")
    ELSE ReturnQuotient(n.v, d.v)

\* except (TypeError, ZeroDivisionError): return default
Caught(e) == e \in {"TypeError", "ZeroDivisionError"}

\* def safe_divide(numerator, denominator, default=0.0):
safe_divide(n, d, dflt) ==
    LET body ==
            IF n.t = "None" \/ d.t = "None" THEN ReturnDefault(dflt)
            ELSE IF AbsRaises(d) THEN Raise("TypeError")
            ELSE IF d.t = "float" /\ Abs(d) < DIVIDE_EPS THEN ReturnDefault(dflt)
            ELSE TrueDivide(n, d)
    IN IF body.kind = "raised" /\ Caught(body.exc) THEN ReturnDefault(dflt)
       ELSE body

DivideIdle ==
    /\ numerator = NoneObject
    /\ denominator = NoneObject
    /\ default = Float(0)
    /\ quotient = NoQuotient
    /\ qpc = "idle"

DivideStart ==
    /\ numerator \in Operands
    /\ denominator \in Operands
    /\ default \in Defaults
    /\ quotient = NoQuotient
    /\ qpc = "call"

\* One call of safe_divide(numerator, denominator, default).
SafeDivide ==
    /\ qpc = "call"
    /\ quotient' = safe_divide(numerator, denominator, default)
    /\ qpc' = "done"
    /\ UNCHANGED <<numerator, denominator, default>>

(***************************************************************************)
(* Per-frame pose pipeline: pose detection on each sampled frame, the      *)
(* landmark coordinate getter for the three joints of an angle, and        *)
(* calculate_angle_3d on what the getter returned.                         *)
(*     try:                                                                *)
(*         landmark = landmarks.landmark[landmark_idx]                     *)
(*         if hasattr(landmark, 'x') and ...:                              *)
(*             return np.array([landmark.x, landmark.y, landmark.z], ...)  *)
(*     except Exception as e:                                              *)
(*         logger.warning(...)                                             *)
(*         return np.array([0.0, 0.0, 0.0], dtype=np.float32)              *)
(* A landmark is its vector (x, y, z), or Unreadable when reading it       *)
(* raises. The branch of a landmark without the attributes x, y, z is      *)
(* elided in the source and is not modelled.                               *)
(***************************************************************************)

\* Most sampled frames handed to the pipeline.
MaxPoseFrames == 3

\* np.array([0.0, 0.0, 0.0], dtype=np.float32)
ZERO_VECTOR == <<0, 0, 0>>

\* A landmark whose read raises (landmarks.landmark[landmark_idx] fails).
Unreadable == <<"unreadable">>

\* The exception of a landmark read, when nothing catches it.
LandmarkError == <<"exception">>

\* Positions a detected landmark takes: the corners of the x-y range.
LandmarkPoints ==
    {v \in Vectors : v[1] \in {0, MaxX} /\ v[2] \in {0, MaxY} /\ v[3] = 0}
Landmarks == LandmarkPoints \cup {Unreadable}

\* The landmarks of one joint triple, as the detection returns them.
LandmarkSets == [1..3 -> Landmarks]

\* The landmark coordinate getter.
\* (get_landmark_coords_unguarded: the two lines without try / except)
get_landmark_coords_unguarded(lm) == IF lm = Unreadable THEN LandmarkError ELSE lm
get_landmark_coords(lm) == IF lm = Unreadable THEN ZERO_VECTOR ELSE lm

PoseIdle ==
    /\ n_sampled = 0
    /\ pose_frame = 0
    /\ landmarks = None
    /\ coords = <<>>
    /\ visited = <<>>
    /\ angle_series = <<>>
    /\ ppc = "idle"

\* Before the first sampled frame.
PoseStart ==
    /\ n_sampled \in 0..MaxPoseFrames
    /\ pose_frame = 1
    /\ landmarks = None
    /\ coords = <<>>
    /\ visited = <<>>
    /\ angle_series = <<>>
    /\ ppc = "detect"

\* Pose detection finds nothing on the frame: the frame is skipped and the
\* pipeline goes on with the next one.
DetectNone ==
    /\ ppc = "detect"
    /\ pose_frame <= n_sampled
    /\ visited' = Append(visited, pose_frame)
    /\ landmarks' = None
    /\ pose_frame' = pose_frame + 1
    /\ UNCHANGED <<n_sampled, coords, angle_series, ppc>>

\* Pose detection returns the landmarks of the frame.
DetectPose ==
    /\ ppc = "detect"
    /\ pose_frame <= n_sampled
    /\ visited' = Append(visited, pose_frame)
    /\ landmarks' \in LandmarkSets
    /\ ppc' = "read"
    /\ UNCHANGED <<n_sampled, pose_frame, coords, angle_series>>

\* The getter is called for the three joints of the angle; an exception it
\* does not catch leaves the pipeline.
GetLandmarks ==
    /\ ppc = "read"
    /\ LET got == [j \in 1..3 |-> get_landmark_coords(landmarks[j])]
       IN IF \E j \in 1..3 : got[j] = LandmarkError
          THEN ppc' = "raised" /\ UNCHANGED coords
          ELSE ppc' = "angle" /\ coords' = got
    /\ UNCHANGED <<n_sampled, pose_frame, landmarks, visited, angle_series>>

\* calculate_angle_3d on the three coordinates; the angle joins the series and
\* the pipeline goes on with the next frame (the frame's landmarks are gone).
CalculateJointAngle ==
    /\ ppc = "angle"
    /\ \E r \in {-1, 0, 1} :
        angle_series' = Append(angle_series,
            [frame |-> pose_frame,
             angle |-> calculate_angle_3d(coords[1], coords[2], coords[3], r),
             unread |-> \E j \in 1..3 : landmarks[j] = Unreadable])
    /\ landmarks' = None
    /\ coords' = <<>>
    /\ pose_frame' = pose_frame + 1
    /\ ppc' = "detect"
    /\ UNCHANGED <<n_sampled, visited>>

\* No sampled frame is left.
PoseEnd ==
    /\ ppc = "detect"
    /\ pose_frame > n_sampled
    /\ ppc' = "done"
    /\ UNCHANGED <<n_sampled, pose_frame, landmarks, coords, visited,
                   angle_series>>

(***************************************************************************)
(* The sampling loop in its two documented versions. They differ in the    *)
(* skip branch, which is the first statement of the loop body in both:     *)
(*     if frame_count % skip_ratio != 0:     if frame_count % skip_ratio != 0: *)
(*         frame_count += 1                      continue                  *)
(*         continue                                                        *)
(* The rest of the body is the one of the frame sampler above.             *)
(***************************************************************************)

SkipBranches == {"increment_continue", "continue"}

LoopIdle ==
    /\ skip_branch = "increment_continue"
    /\ at = "while"

LoopStart ==
    /\ FramesStart
    /\ skip_branch \in SkipBranches
    /\ at = "while"

\* The loop condition holds: the body is entered.
WhileTrue ==
    /\ at = "while"
    /\ fpc = "loop"
    /\ LoopGuard(frames_data)
    /\ at' = "if"
    /\ UNCHANGED <<framesVars, skip_branch>>

\* The loop condition fails.
WhileFalse ==
    /\ at = "while"
    /\ CapReached
    /\ UNCHANGED loopVars

\* The video is exhausted: break.
BodyReadEnd ==
    /\ at = "if"
    /\ ReadEnd
    /\ at' = "while"
    /\ UNCHANGED skip_branch

\* The frame passes the skip test and is kept.
BodyKeepFrame ==
    /\ at = "if"
    /\ KeepFrame
    /\ at' = "while"
    /\ UNCHANGED skip_branch

\* frame_count += 1; continue
SkipAndAdvance ==
    /\ at = "if"
    /\ skip_branch = "increment_continue"
    /\ SkipFrame
    /\ at' = "while"
    /\ UNCHANGED skip_branch

\* continue  -- back to the loop condition with nothing changed.
SkipAndSpin ==
    /\ at = "if"
    /\ skip_branch = "continue"
    /\ fpc = "loop"
    /\ frame_count < total_frames
    /\ IsSkipped(frame_count, skip_ratio)
    /\ at' = "while"
    /\ UNCHANGED <<framesVars, skip_branch>>

(***************************************************************************)
(* Pipeline test: pipeline_test.py. Three tests run one after the other    *)
(* (git operations, documentation, components) and the script reports      *)
(* whether all of them returned True. The git-operations test runs git in  *)
(* a subprocess with a timeout:                                            *)
(*     except FileNotFoundError:                                           *)
(*         logger.warning("Git command not found, skipping git tests")     *)
(*         return True                                                     *)
(***************************************************************************)

GitStates == {"ok", "fails", "hangs", "missing"}

\* possible_paths = [Path.cwd() / 'README.md', Path(...), Path(...)]
POSSIBLE_PATHS == 1..3

\* except FileNotFoundError: what is logged and returned.
\* (GitNotFoundHardFailure: logger.error(...); return False)
GitNotFoundHardFailure ==
    [level |-> "ERROR", text |-> "Git command not found", result |-> FALSE]
GitNotFound ==
    [level |-> "WARNING", text |-> "Git command not found, skipping git tests",
     result |-> TRUE]

\* A test has finished: its log line and its result.
Finished(level, text, result) ==
    /\ test_log' = Append(test_log, <<level, text>>)
    /\ test_results' = Append(test_results, result)

PipelineIdle ==
    /\ git_state = "ok"
    /\ readme_at = {}
    /\ doc_valid = FALSE
    /\ components_ready = FALSE
    /\ test_results = <<>>
    /\ test_log = <<>>
    /\ report = ""
    /\ kpc = "idle"

\* The script starts on some machine, in some workspace.
PipelineStart ==
    /\ git_state \in GitStates
    /\ readme_at \in SUBSET POSSIBLE_PATHS
    /\ doc_valid \in BOOLEAN
    /\ components_ready \in BOOLEAN
    /\ test_results = <<>>
    /\ test_log = <<>>
    /\ report = ""
    /\ kpc = "which"

\* The availability check ("which git") before the git operations: when it
\* finds no git the git tests are skipped; it may also not notice.
CheckGitAvailable ==
    /\ kpc = "which"
    /\ \/ /\ git_state = "missing"
          /\ Finished("WARNING", "Git not available, skipping git tests", TRUE)
          /\ kpc' = "docs"
       \/ /\ kpc' = "git"
          /\ UNCHANGED <<test_results, test_log>>
    /\ UNCHANGED <<git_state, readme_at, doc_valid, components_ready, report>>

\* subprocess.run(['git', ...], timeout=10) inside try, and its handlers.
RunGit ==
    /\ kpc = "git"
    /\ CASE git_state = "ok" ->
                Finished("INFO", "Git repository accessible", TRUE)
         [] git_state = "fails" ->
                Finished("ERROR", "Git command failed", FALSE)
         [] git_state = "hangs" ->
                Finished("ERROR", "Git command timed out", FALSE)
         [] git_state = "missing" ->
                Finished(GitNotFound.level, GitNotFound.text, GitNotFound.result)
    /\ kpc' = "docs"
    /\ UNCHANGED <<git_state, readme_at, doc_valid, components_ready, report>>

\* The documentation test: the first of possible_paths that exists is read.
TestDocumentation ==
    /\ kpc = "docs"
    /\ IF readme_at = {}
       THEN Finished("ERROR", "README.md not found", FALSE)
       ELSE IF doc_valid
       THEN Finished("INFO", "Feature documentation validated", TRUE)
       ELSE Finished("ERROR", "Feature documentation incomplete", FALSE)
    /\ kpc' = "components"
    /\ UNCHANGED <<git_state, readme_at, doc_valid, components_ready, report>>

\* The components test.
TestComponents ==
    /\ kpc = "components"
    /\ IF components_ready
       THEN Finished("INFO", "All components ready", TRUE)
       ELSE Finished("ERROR", "Components missing", FALSE)
    /\ kpc' = "report"
    /\ UNCHANGED <<git_state, readme_at, doc_valid, components_ready, report>>

\* "ALL TESTS PASSED (3/3)" when every test returned True.
Report ==
    /\ kpc = "report"
    /\ report' = IF \A i \in DOMAIN test_results : test_results[i]
                 THEN "passed" ELSE "failed"
    /\ kpc' = "done"
    /\ UNCHANGED <<git_state, readme_at, doc_valid, components_ready,
                   test_results, test_log>>

(***************************************************************************)
(* Specifications                                                          *)
(***************************************************************************)

othersFrames == <<handleVars, angleVars, thresholdVars, chatVars,
    uploadVars, demoVars, botVars, controllerVars, configVars, divideVars,
    poseVars, loopVars, pipelineVars>>
InitFrames ==
    /\ FramesStart
    /\ HandleIdle
    /\ AngleIdle
    /\ ThresholdIdle
    /\ ChatIdle
    /\ UploadIdle
    /\ DemoIdle
    /\ BotIdle
    /\ ControllerIdle
    /\ ConfigIdle
    /\ DivideIdle
    /\ PoseIdle
    /\ LoopIdle
    /\ PipelineIdle
NextFrames ==
    \/ ReadEnd /\ UNCHANGED othersFrames
    \/ SkipFrame /\ UNCHANGED othersFrames
    \/ KeepFrame /\ UNCHANGED othersFrames
    \/ CapReached /\ UNCHANGED othersFrames
SpecFrames == InitFrames /\ [][NextFrames]_vars

othersAnalysis == <<angleVars, thresholdVars, chatVars, uploadVars,
    demoVars, botVars, controllerVars, configVars, divideVars, poseVars,
    loopVars, pipelineVars>>
InitAnalysis ==
    /\ AnalysisStart
    /\ AngleIdle
    /\ ThresholdIdle
    /\ ChatIdle
    /\ UploadIdle
    /\ DemoIdle
    /\ BotIdle
    /\ ControllerIdle
    /\ ConfigIdle
    /\ DivideIdle
    /\ PoseIdle
    /\ LoopIdle
    /\ PipelineIdle
NextAnalysis ==
    \/ ReadEnd /\ UNCHANGED <<handleVars, othersAnalysis>>
    \/ SkipFrame /\ UNCHANGED <<handleVars, othersAnalysis>>
    \/ KeepFrame /\ UNCHANGED <<handleVars, othersAnalysis>>
    \/ CapReached /\ UNCHANGED <<handleVars, othersAnalysis>>
    \/ ReadFails /\ UNCHANGED othersAnalysis
    \/ ProcessingRaises /\ UNCHANGED othersAnalysis
    \/ Finally /\ UNCHANGED othersAnalysis
SpecAnalysis == InitAnalysis /\ [][NextAnalysis]_vars

othersAngle == <<framesVars, handleVars, thresholdVars, chatVars,
    uploadVars, demoVars, botVars, controllerVars, configVars, divideVars,
    poseVars, loopVars, pipelineVars>>
InitAngle ==
    /\ AngleStart
    /\ FramesIdle
    /\ HandleIdle
    /\ ThresholdIdle
    /\ ChatIdle
    /\ UploadIdle
    /\ DemoIdle
    /\ BotIdle
    /\ ControllerIdle
    /\ ConfigIdle
    /\ DivideIdle
    /\ PoseIdle
    /\ LoopIdle
    /\ PipelineIdle
NextAngle ==
    \/ CalculateAngle /\ UNCHANGED othersAngle
SpecAngle == InitAngle /\ [][NextAngle]_vars

othersThreshold == <<framesVars, handleVars, angleVars, chatVars,
    uploadVars, demoVars, botVars, controllerVars, configVars, divideVars,
    poseVars, loopVars, pipelineVars>>
InitThreshold ==
    /\ ThresholdStart
    /\ FramesIdle
    /\ HandleIdle
    /\ AngleIdle
    /\ ChatIdle
    /\ UploadIdle
    /\ DemoIdle
    /\ BotIdle
    /\ ControllerIdle
    /\ ConfigIdle
    /\ DivideIdle
    /\ PoseIdle
    /\ LoopIdle
    /\ PipelineIdle
NextThreshold ==
    \/ CheckArmAngle /\ UNCHANGED othersThreshold
SpecThreshold == InitThreshold /\ [][NextThreshold]_vars

othersChat == <<framesVars, handleVars, angleVars, thresholdVars,
    uploadVars, demoVars, botVars, controllerVars, configVars, divideVars,
    poseVars, loopVars, pipelineVars>>
InitChat ==
    /\ ChatStart
    /\ FramesIdle
    /\ HandleIdle
    /\ AngleIdle
    /\ ThresholdIdle
    /\ UploadIdle
    /\ DemoIdle
    /\ BotIdle
    /\ ControllerIdle
    /\ ConfigIdle
    /\ DivideIdle
    /\ PoseIdle
    /\ LoopIdle
    /\ PipelineIdle
NextChat ==
    \/ ProcessMessage /\ UNCHANGED othersChat
SpecChat == InitChat /\ [][NextChat]_vars

othersDemo == <<framesVars, handleVars, angleVars, thresholdVars, chatVars,
    uploadVars, botVars, controllerVars, configVars, divideVars, poseVars,
    loopVars, pipelineVars>>
InitDemo ==
    /\ DemoStart
    /\ FramesIdle
    /\ HandleIdle
    /\ AngleIdle
    /\ ThresholdIdle
    /\ ChatIdle
    /\ UploadIdle
    /\ BotIdle
    /\ ControllerIdle
    /\ ConfigIdle
    /\ DivideIdle
    /\ PoseIdle
    /\ LoopIdle
    /\ PipelineIdle
NextDemo ==
    \/ Submit /\ UNCHANGED othersDemo
    \/ ClickClear /\ UNCHANGED othersDemo
    \/ Rerun /\ UNCHANGED othersDemo
    \/ Refresh /\ UNCHANGED othersDemo
SpecDemo == InitDemo /\ [][NextDemo]_vars

othersBot == <<framesVars, handleVars, angleVars, thresholdVars, chatVars,
    uploadVars, demoVars, controllerVars, configVars, divideVars, poseVars,
    loopVars, pipelineVars>>
InitBot ==
    /\ BotStart
    /\ FramesIdle
    /\ HandleIdle
    /\ AngleIdle
    /\ ThresholdIdle
    /\ ChatIdle
    /\ UploadIdle
    /\ DemoIdle
    /\ ControllerIdle
    /\ ConfigIdle
    /\ DivideIdle
    /\ PoseIdle
    /\ LoopIdle
    /\ PipelineIdle
NextBot ==
    \/ GetBotResponse /\ UNCHANGED othersBot
SpecBot == InitBot /\ [][NextBot]_vars

othersController == <<framesVars, handleVars, angleVars, thresholdVars,
    uploadVars, demoVars, botVars, configVars, divideVars, poseVars,
    loopVars, pipelineVars>>
InitController ==
    /\ ControllerStart
    /\ FramesIdle
    /\ HandleIdle
    /\ AngleIdle
    /\ ThresholdIdle
    /\ UploadIdle
    /\ DemoIdle
    /\ BotIdle
    /\ ConfigIdle
    /\ DivideIdle
    /\ PoseIdle
    /\ LoopIdle
    /\ PipelineIdle
NextController ==
    \/ ValidateParameter /\ UNCHANGED othersController
    \/ HandleValidationException /\ UNCHANGED othersController
    \/ MethodBody /\ UNCHANGED othersController
SpecController == InitController /\ [][NextController]_vars

othersConfig == <<framesVars, handleVars, angleVars, thresholdVars,
    chatVars, uploadVars, demoVars, botVars, controllerVars, divideVars,
    poseVars, loopVars, pipelineVars>>
InitConfig ==
    /\ ConfigStart
    /\ FramesIdle
    /\ HandleIdle
    /\ AngleIdle
    /\ ThresholdIdle
    /\ ChatIdle
    /\ UploadIdle
    /\ DemoIdle
    /\ BotIdle
    /\ ControllerIdle
    /\ DivideIdle
    /\ PoseIdle
    /\ LoopIdle
    /\ PipelineIdle
NextConfig ==
    \/ GetConfig /\ UNCHANGED othersConfig
    \/ ChangeTopLevel /\ UNCHANGED othersConfig
    \/ ReplaceNested /\ UNCHANGED othersConfig
    \/ ChangeNested /\ UNCHANGED othersConfig
SpecConfig == InitConfig /\ [][NextConfig]_vars

othersDivide == <<framesVars, handleVars, angleVars, thresholdVars,
    chatVars, uploadVars, demoVars, botVars, controllerVars, configVars,
    poseVars, loopVars, pipelineVars>>
InitDivide ==
    /\ DivideStart
    /\ FramesIdle
    /\ HandleIdle
    /\ AngleIdle
    /\ ThresholdIdle
    /\ ChatIdle
    /\ UploadIdle
    /\ DemoIdle
    /\ BotIdle
    /\ ControllerIdle
    /\ ConfigIdle
    /\ PoseIdle
    /\ LoopIdle
    /\ PipelineIdle
NextDivide ==
    \/ SafeDivide /\ UNCHANGED othersDivide
SpecDivide == InitDivide /\ [][NextDivide]_vars

othersPose == <<framesVars, handleVars, angleVars, thresholdVars, chatVars,
    uploadVars, demoVars, botVars, controllerVars, configVars, divideVars,
    loopVars, pipelineVars>>
InitPose ==
    /\ PoseStart
    /\ FramesIdle
    /\ HandleIdle
    /\ AngleIdle
    /\ ThresholdIdle
    /\ ChatIdle
    /\ UploadIdle
    /\ DemoIdle
    /\ BotIdle
    /\ ControllerIdle
    /\ ConfigIdle
    /\ DivideIdle
    /\ LoopIdle
    /\ PipelineIdle
NextPose ==
    \/ DetectNone /\ UNCHANGED othersPose
    \/ DetectPose /\ UNCHANGED othersPose
    \/ GetLandmarks /\ UNCHANGED othersPose
    \/ CalculateJointAngle /\ UNCHANGED othersPose
    \/ PoseEnd /\ UNCHANGED othersPose
SpecPose == InitPose /\ [][NextPose]_vars

othersLoop == <<handleVars, angleVars, thresholdVars, chatVars, uploadVars,
    demoVars, botVars, controllerVars, configVars, divideVars, poseVars,
    pipelineVars>>
InitLoop ==
    /\ LoopStart
    /\ HandleIdle
    /\ AngleIdle
    /\ ThresholdIdle
    /\ ChatIdle
    /\ UploadIdle
    /\ DemoIdle
    /\ BotIdle
    /\ ControllerIdle
    /\ ConfigIdle
    /\ DivideIdle
    /\ PoseIdle
    /\ PipelineIdle
NextLoop ==
    \/ WhileTrue /\ UNCHANGED othersLoop
    \/ WhileFalse /\ UNCHANGED othersLoop
    \/ BodyReadEnd /\ UNCHANGED othersLoop
    \/ BodyKeepFrame /\ UNCHANGED othersLoop
    \/ SkipAndAdvance /\ UNCHANGED othersLoop
    \/ SkipAndSpin /\ UNCHANGED othersLoop
\* The loop keeps running while it can take a step.
SpecLoop == InitLoop /\ [][NextLoop]_vars /\ WF_vars(NextLoop)

othersPipeline == <<framesVars, handleVars, angleVars, thresholdVars,
    chatVars, uploadVars, demoVars, botVars, controllerVars, configVars,
    divideVars, poseVars, loopVars>>
InitPipeline ==
    /\ PipelineStart
    /\ FramesIdle
    /\ HandleIdle
    /\ AngleIdle
    /\ ThresholdIdle
    /\ ChatIdle
    /\ UploadIdle
    /\ DemoIdle
    /\ BotIdle
    /\ ControllerIdle
    /\ ConfigIdle
    /\ DivideIdle
    /\ PoseIdle
    /\ LoopIdle
NextPipeline ==
    \/ CheckGitAvailable /\ UNCHANGED othersPipeline
    \/ RunGit /\ UNCHANGED othersPipeline
    \/ TestDocumentation /\ UNCHANGED othersPipeline
    \/ TestComponents /\ UNCHANGED othersPipeline
    \/ Report /\ UNCHANGED othersPipeline
SpecPipeline == InitPipeline /\ [][NextPipeline]_vars

othersUpload == <<framesVars, handleVars, angleVars, thresholdVars,
    chatVars, demoVars, botVars, controllerVars, configVars, divideVars,
    poseVars, loopVars, pipelineVars>>
InitUpload ==
    /\ UploadStart
    /\ FramesIdle
    /\ HandleIdle
    /\ AngleIdle
    /\ ThresholdIdle
    /\ ChatIdle
    /\ DemoIdle
    /\ BotIdle
    /\ ControllerIdle
    /\ ConfigIdle
    /\ DivideIdle
    /\ PoseIdle
    /\ LoopIdle
    /\ PipelineIdle
NextUpload ==
    \/ CheckSize /\ UNCHANGED othersUpload
    \/ CheckName /\ UNCHANGED othersUpload
    \/ OpenFile /\ UNCHANGED othersUpload
    \/ WriteFile /\ UNCHANGED othersUpload
    \/ VerifyFile /\ UNCHANGED othersUpload
    \/ ExceptCleanup /\ UNCHANGED othersUpload
SpecUpload == InitUpload /\ [][NextUpload]_vars

(***************************************************************************)
(* Claims                                                                  *)
(***************************************************************************)

\* ---- frame sampler -------------------------------------------------------

\* C1: for every video length, the frame-collection loop never holds more than
\* MAX_FRAMES kept frames, in any state of the loop and when it has ended.
C1_NeverMoreThanCap == Len(frames_data) <= MAX_FRAMES

\* A video longer than the cap has been sampled to the end of the loop and the
\* cap was reached.
C1_Witness ==
    /\ fpc = "done"
    /\ total_frames > MAX_FRAMES
    /\ Len(frames_data) = MAX_FRAMES

\* C9: for a video shorter than the cap (N < MAX_FRAMES) the sampler keeps every
\* frame: when the loop has ended the kept indices are exactly 0..N-1 in order,
\* and while it runs they are exactly the frames passed so far.
C9_ShortVideoKeepsEveryFrame ==
    total_frames < MAX_FRAMES /\ fpc \in {"loop", "done"} =>
        /\ frames_data = [i \in 1..frame_count |-> i - 1]
        /\ fpc = "done" => frame_count = total_frames

\* The longest video below the cap has been sampled completely.
C9_Witness ==
    /\ fpc = "done"
    /\ total_frames = MAX_FRAMES - 1
    /\ Len(frames_data) = MAX_FRAMES - 1

\* C10: the kept frames are evenly spaced over the whole video: when the loop
\* has ended they are exactly the frames whose index is a multiple of
\* skip_ratio = max(1, N // MAX_FRAMES), so the last kept index is less than
\* skip_ratio away from the last frame of the video.
C10_EvenlySpacedOverWholeVideo ==
    fpc = "done" =>
        LET sr == Max(1, total_frames \div MAX_FRAMES)
            multiples == {i \in 0..(total_frames - 1) : i % sr = 0}
        IN /\ Range(frames_data) = multiples
           /\ \A i \in 1..(Len(frames_data) - 1) :
                  frames_data[i + 1] - frames_data[i] = sr
           /\ total_frames > 0 =>
                  /\ frames_data # <<>>
                  /\ (total_frames - 1) - frames_data[Len(frames_data)] < sr

\* ---- angle evaluator -----------------------------------------------------

\* C2: calculate_angle_3d returns the fallback 0.0 and raises no exception
\* whenever one of the three points is None or one of the vectors p1-p2, p3-p2
\* is shorter than 1e-10 (p1 = p2, p3 = p2 and three equal points included).
C2_FallbackOnNoneOrShortVector ==
    apc = "done" =>
        LET none == p1 = <<>> \/ p2 = <<>> \/ p3 = <<>>
            short(a, b) ==
                (a[1] - b[1]) * (a[1] - b[1]) + (a[2] - b[2]) * (a[2] - b[2])
                    + (a[3] - b[3]) * (a[3] - b[3]) < NORM_EPS * NORM_EPS
        IN (none \/ short(p1, p2) \/ short(p3, p2)) =>
               angle = [kind |-> "value", deg |-> 0]

\* A call whose vector p1-p2 is not zero but shorter than the threshold, with
\* p3-p2 long enough, has returned the fallback.
C2_Witness ==
    /\ apc = "done"
    /\ p1 # None /\ p2 # None /\ p3 # None
    /\ NormSq(Sub(p1, p2)) > 0
    /\ NormSq(Sub(p1, p2)) < NORM_EPS * NORM_EPS
    /\ NormSq(Sub(p3, p2)) >= NORM_EPS * NORM_EPS
    /\ angle = Fallback

C8_BoundaryPasses ==
    tpc = "done" =>
        /\ arm_angle = ARM_ANGLE_MIN => arm_ok
        /\ arm_angle < ARM_ANGLE_MIN => ~arm_ok

\* The check has been made on an angle of exactly 165 degrees and passed.
C8_Witness ==
    /\ tpc = "done"
    /\ arm_angle = ARM_ANGLE_MIN
    /\ arm_ok

\* ---- keyword matcher -----------------------------------------------------

\* kw occurs in str as a substring.
Contains(str, kw) ==
    \E i \in 1..Len(str) :
        i + Len(kw) - 1 <= Len(str) /\ SubSeq(str, i, i + Len(kw) - 1) = kw

\* C4: every message that contains "hello" or "안녕" as a substring, wherever
\* it sits and whatever is next to it, gets the greeting response.
C4_GreetingForSubstring ==
    (/\ cpc = "done"
     /\ message # NULL
     /\ \/ Contains(message, <<"h", "e", "l", "l", "o">>)
        \/ Contains(message, <<"U+C548", "U+B155">>))
        => response = "greeting"

\* C5: every message that contains "bye" or "잘가" as a substring gets the
\* farewell response.
C5_FarewellForSubstring ==
    (/\ cpc = "done"
     /\ message # NULL
     /\ \/ Contains(message, <<"b", "y", "e">>)
        \/ Contains(message, <<"U+C798", "U+AC00">>))
        => response = "farewell"

\* C6 as stated: a message with no greeting keyword (hello, 안녕) and no
\* farewell keyword (bye, 잘가), null and blank messages included, gets the
\* default response; greeting, farewell and default are the only responses.
C6_OnlyThreeResponses ==
    cpc = "done" =>
        /\ response \in {"greeting", "farewell", "default"}
        /\ (\/ message = NULL
            \/ \A kw \in { <<"h", "e", "l", "l", "o">>, <<"U+C548", "U+B155">>,
                           <<"b", "y", "e">>, <<"U+C798", "U+AC00">> } :
                   ~Contains(ToLowerCase(message), kw))
               => response = "default"

\* C6 amended: a message in which no keyword of the service's three patterns
\* occurs -- greeting (안녕, hello, hi, hey), farewell (잘가, bye, goodbye,
\* farewell), help (도움, help, ?) -- null and blank messages included, gets
\* the default response; greeting, farewell, help and default are the only
\* responses.
C6_DefaultUnlessKeyword ==
    cpc = "done" =>
        /\ response \in {"greeting", "farewell", "help", "default"}
        /\ (\/ message = NULL
            \/ \A kw \in { <<"U+C548", "U+B155">>, <<"h", "e", "l", "l", "o">>,
                           <<"h", "i">>, <<"h", "e", "y">>,
                           <<"U+C798", "U+AC00">>, <<"b", "y", "e">>,
                           <<"g", "o", "o", "d", "b", "y", "e">>,
                           <<"f", "a", "r", "e", "w", "e", "l", "l">>,
                           <<"U+B3C4", "U+C6C0">>, <<"h", "e", "l", "p">>,
                           <<"?">> } :
                   ~Contains(ToLowerCase(message), kw))
               => response = "default"

\* A message that is not blank and holds no keyword has got the default
\* response.
C6_Witness ==
    /\ cpc = "done"
    /\ message # NULL
    /\ Trim(message) # <<>>
    /\ \A kw \in GreetingKeywords \cup FarewellKeywords \cup HelpKeywords :
           ~Contains(ToLowerCase(message), kw)
    /\ response = "default"

\* The upper-case form of a character.
UpperOf == [c \in Range(LowerLetters) |->
               UpperLetters[CHOOSE i \in DOMAIN LowerLetters : LowerLetters[i] = c]]
ToUpperChar(c) == IF c \in DOMAIN UpperOf THEN UpperOf[c] ELSE c

\* The messages that differ from str only in letter case, for four patterns
\* of case: all lower, all upper, upper at odd positions, upper at even ones.
CaseVariants(str) ==
    { [i \in DOMAIN str |-> ToLowerChar(str[i])],
      [i \in DOMAIN str |-> ToUpperChar(str[i])],
      [i \in DOMAIN str |->
          IF i % 2 = 1 THEN ToUpperChar(str[i]) ELSE ToLowerChar(str[i])],
      [i \in DOMAIN str |->
          IF i % 2 = 0 THEN ToUpperChar(str[i]) ELSE ToLowerChar(str[i])] }

C11_HandleReleasedOnEveryExit ==
    fpc \in {"returned", "raised"} => ~cap_open

\* The call was left by an exception after some frames were kept, and the
\* handle is released.
C11_Witness ==
    /\ fpc = "raised"
    /\ Len(frames_data) > 0
    /\ ~cap_open

\* C12: whenever save_uploaded_file returns None after it has started writing
\* the temporary file (the write raised, or the written file is missing or
\* empty), no temporary file of that call remains on disk.
C12_NoFileLeftWhenNone ==
    (upc = "returned" /\ up_result = "None" /\ temp_path # "None")
        => disk = ABSENT

C17_FarewellKeywordGetsFarewell ==
    (bpc = "done" /\ Lower(user_input) \in FAREWELL_KEYWORDS)
        => bot_response = "farewell"

\* C18: a POST /message request whose message is blank (empty or only
\* whitespace) or longer than 500 characters is answered with HTTP 400 and
\* the message of a constraint it violates, and ChatService.processMessage is
\* never called for it.
C18_InvalidMessageRejected ==
    LET blank == \A i \in DOMAIN req_message : req_message[i] = " "
        long == Len(req_message) > 500
    IN (rpc # "idle" /\ (blank \/ long)) =>
          /\ cpc = "idle"
          /\ rpc = "done" =>
                /\ http_status = 400
                /\ http_body \in (IF blank THEN {NOT_BLANK_MESSAGE} ELSE {})
                                    \cup (IF long THEN {SIZE_MESSAGE} ELSE {})

\* A message of 501 characters that is not blank has been answered 400 with
\* the message of the size constraint.
C18_Witness ==
    /\ rpc = "done"
    /\ Len(req_message) = 501
    /\ req_message[1] = "h"
    /\ http_status = 400
    /\ http_body = SIZE_MESSAGE
    /\ cpc = "idle"

\* C19: get_config returns a copy that protects the stored configuration:
\* whatever a caller has changed in a dictionary it got (a top-level key or
\* a value nested inside it), a call of get_config returns the section as
\* config.py wrote it.
C19_ReturnsOriginal ==
    cfg_returned.status = "ok" =>
        LET section == Strip(Lower(section_arg))
        IN /\ cfg_returned.flat = ORIGINAL_DICTS[configs[section]].flat
           /\ cfg_returned.nested =
                  ORIGINAL_LISTS[ORIGINAL_DICTS[configs[section]].nested]

\* C20: safe_divide never raises: it returns default when numerator or
\* denominator is None, when abs(denominator) < 1e-10 and when the operands
\* are of a type that cannot be divided, and numerator / denominator
\* otherwise.
C20_SafeDivideNeverRaises ==
    qpc = "done" =>
        /\ quotient.kind # "raised"
        /\ (numerator.t = "None" \/ denominator.t = "None")
              => quotient = ReturnDefault(default)
        /\ (denominator.t = "float" /\ denominator.v \in {-1, 0, 1})
              => quotient = ReturnDefault(default)
        /\ (numerator.t = "str" \/ denominator.t = "str")
              => quotient = ReturnDefault(default)
        /\ (numerator.t = "float" /\ denominator.t = "float"
               /\ denominator.v \notin {-1, 0, 1})
              => quotient = ReturnQuotient(numerator.v, denominator.v)

\* C21: in the per-frame pipeline, an angle whose joint triple includes a
\* landmark that could not be read is the fallback 0.0: the zero vector the
\* getter puts in its place never yields an angle computed from it.
C21_UnreadLandmarkGivesFallback ==
    \A i \in DOMAIN angle_series :
        angle_series[i].unread => angle_series[i].angle = Fallback

C23_LoopTerminates == <>(fpc = "done")

\* C24: when ChatService.processMessage, or anything else in the method body,
\* throws, POST /message is answered HTTP 500 with exactly the fixed body,
\* which holds neither the message of the exception nor the user's message.
C24_BodyFailureAnswers500 ==
    (rpc = "done" /\ thrown # "none") =>
        /\ http_status = 500
        /\ http_body = ERROR_BODY

\* C28: the longest message POST /message accepts follows
\* ChatConfig.maxMessageLength: after setMaxMessageLength(n) a message (one
\* that is not blank) is accepted exactly when its length is at most n.
C28_LengthLimitFollowsConfig ==
    (rpc \in {"violation", "body", "done"}
        /\ \E i \in DOMAIN req_message : req_message[i] # " ") =>
            (violations = {} <=> Len(req_message) <= max_message_length)

\* C29: with ChatConfig.enableLogging false, handling a POST /message request
\* writes no log entry holding the user's message, on success and on failure;
\* and a message text that is logged is the trimmed, HTML-escaped form, never
\* the raw input.
C29_OnlySanitizedMessageLogged ==
    \A i \in DOMAIN log :
        /\ enable_logging
        /\ log[i][3] = htmlEscape(Trim(req_message))

\* C25: get_config rejects an empty or non-string section with ValueError
\* before any lookup, rejects an unknown section with an error instead of
\* returning a value, and looks a section up after lower-casing and trimming
\* its name, so that " Video " returns what "video" returns.
C25_SectionValidated ==
    [][n_changes' = n_changes =>
        LET section == section_arg'
            name == Strip(Lower(section))
        IN IF section = <<>> \/ section = NOT_A_STR
           THEN cfg_returned' = Raised("ValueError") /\ dicts' = dicts
           ELSE IF name \notin {VIDEO, LOGGING}
           THEN cfg_returned'.status \notin {"ok", "none", "ValueError"}
                    /\ dicts' = dicts
           ELSE cfg_returned' = Returned(ValueOf(configs[name], dicts, lists))
    ]_vars
C25_Witness ==
    /\ section_arg = <<" ", "V", "i", "d", "e", "o", " ">>
    /\ cfg_returned.status = "ok"
    /\ cfg_returned.nested = ORIGINAL_LISTS[1]
    /\ held = Len(ORIGINAL_DICTS) + MaxCalls

\* C26: in the pipeline test, when the git command is not found
\* (FileNotFoundError) the git-operations test logs a warning and returns
\* True, so a missing git never makes the pipeline test report a failure.
C26_MissingGitPasses ==
    (git_state = "missing" /\ test_results # <<>>) =>
        /\ test_results[1] = TRUE
        /\ test_log[1][1] = "WARNING"
        /\ report = "failed" =>
              \E i \in 2..Len(test_results) : ~test_results[i]
C26_Witness ==
    /\ git_state = "missing"
    /\ test_log # <<>>
    /\ test_log[1] = <<"WARNING", "Git command not found, skipping git tests">>
    /\ report = "passed"

\* C27: ChatService.processMessage resolves overlapping keywords by the fixed
\* precedence greeting > farewell > help > default: a message that matches
\* the greeting pattern gets the greeting response even if it also matches
\* the farewell or the help pattern, and a message that matches the farewell
\* and the help pattern gets the farewell response.
C27_FixedPrecedence ==
    (cpc = "done" /\ message # NULL /\ ~IsBlank(message)) =>
        LET normalized == Trim(ToLowerCase(message))
            greeting == Find(GreetingKeywords, normalized, unicode_word)
            farewell == Find(FarewellKeywords, normalized, unicode_word)
            help == Find(HelpKeywords, normalized, unicode_word)
        IN /\ greeting => response = "greeting"
           /\ (farewell /\ ~greeting) => response = "farewell"
           /\ (help /\ ~greeting /\ ~farewell) => response = "help"
           /\ (~greeting /\ ~farewell /\ ~help) => response = "default"
\* "hello bye", which matches the greeting and the farewell pattern, has been
\* answered with the greeting.
C27_Witness ==
    /\ cpc = "done"
    /\ message = <<"h", "e", "l", "l", "o", " ", "b", "y", "e">>
    /\ response = "greeting"

====
